---- MODULE Spec2Model ----
(***************************************************************************)
(* Message processing pipeline of chatbot-copilot: provider key pool,      *)
(* retry executor, intent classifier, context retriever, response          *)
(* generator, escalation evaluator and the processMessage orchestrator.    *)
(*                                                                         *)
(* JavaScript values are records tagged by "kind" ("undefined", "object",  *)
(* "array", "error").  Confidence values are carried in hundredths         *)
(* (0.7 is 70) so that the arithmetic stays in the integers.               *)
(***************************************************************************)
EXTENDS Integers, Sequences, FiniteSets, TLC

VARIABLES
    apiKeys,          \* config.gemini.apiKeys: the credential pool (fixed at load)
    currentKeyIndex,  \* config.gemini.currentKeyIndex: 0-based cursor, or NaN
    model,            \* gemini.js `model`: credential the active client was built from
    index,            \* pinecone.js `index`: "null" or "set"
    embedClient,      \* pinecone.js `genAI`: "null" or "set"
    run,              \* executeWithRetry activations, one per caller slot
    pc,               \* position of the processMessage call
    mode,             \* options.mode of the processMessage call
    messageText,      \* the inbound text, as a sequence of word tokens
    customerInfo,     \* customer record of the call
    intent,           \* outcome of the detectIntent call
    context,          \* outcome of the queryRelevant call
    aiResult,         \* outcome of the generateResponse call
    suggestedReplies, \* outcome of the generateQuickReplies call
    escalationCheck,  \* verdict of the shouldEscalate call
    result,           \* what processMessage handed to its caller
    delivered,        \* what the webhook handler sent and emitted for the call
    pending,          \* pending_messages table and the admin requests working on it
    customers,        \* customers table, the calendar date and the prompts built
    generationOk,     \* history: a provider attempt has succeeded during this call
    rotations,        \* history: rotateApiKey calls so far, where they are counted
    esc,              \* escalation-evaluator harness: inputs and verdict
    conf,             \* confidence harness: generated text and its confidence
    rot               \* key-pool harness: the last pool operation and its result

vars == <<apiKeys, currentKeyIndex, model, index, embedClient, run, pc, mode,
          messageText, customerInfo, intent, context, aiResult, suggestedReplies,
          escalationCheck, result, delivered, pending, customers, generationOk,
          rotations, esc, conf, rot>>

poolVars == <<apiKeys, currentKeyIndex, model>>
vectorVars == <<index, embedClient>>
callVars == <<pc, mode, messageText, customerInfo, intent, context, aiResult,
              suggestedReplies, escalationCheck, result>>
histVars == <<generationOk, rotations>>
handlerVars == <<delivered, pending, customers>>
harnessVars == <<esc, conf, rot>>

-----------------------------------------------------------------------------
(* Bounds of the exploration *)

MaxKeys == 2          \* pool sizes 0..MaxKeys are explored
NumRuns == 2          \* concurrent exported-function calls
MaxMsgLen == 4        \* tokens per inbound message in the evaluator harness
MaxTextWords == 5     \* words per generated text in the confidence harness
MaxRotations == 3     \* rotations followed where the rotations are counted
MaxPending == 2       \* messages queued in test mode
MaxForwards == 2      \* forceSendMessage calls followed per queued message
NumCustomers == 2     \* customers writing in
MaxDays == 4          \* calendar dates followed

Runs == 1..NumRuns

-----------------------------------------------------------------------------
(* JavaScript values *)

Undefined == [kind |-> "undefined"]
Null == [kind |-> "null"]

IsAbsent(v) == v.kind \in {"undefined", "null"}

-----------------------------------------------------------------------------
(* Provider key pool: config.js *)

KeyName(k) == [kind |-> "key", id |-> k]

\* the environment variables GEMINI_API_KEY_1 .. GEMINI_API_KEY_8
PoolSlots == 8

PoolOfSize(n) == [k \in 1..n |-> KeyName(k)]

\* apiKeys: the configured GEMINI_API_KEY_n values that survive filter(Boolean)
Pools == { [k \in 1..n |-> KeyName(k)] : n \in 0..MaxKeys }

\* JavaScript array read apiKeys[i]: undefined when i is NaN or out of range
KeyAt(keys, i) ==
    IF i \in 0..(Len(keys) - 1) THEN keys[i + 1] ELSE Undefined

\* The JavaScript number NaN, which (x % 0) and every later NaN + 1 produce
NaN == -1

\* variant: the cursor advances without wrapping around
NextIndex_NoWrap(keys, i) ==
    IF i = NaN \/ Len(keys) = 0 THEN NaN ELSE i + 1

\* variant: the cursor stops at the last key
NextIndex_Saturating(keys, i) ==
    IF i = NaN \/ Len(keys) = 0
    THEN NaN
    ELSE IF i + 1 < Len(keys) THEN i + 1 ELSE i

\* (currentKeyIndex + 1) % apiKeys.length
NextIndex(keys, i) ==
    IF i = NaN \/ Len(keys) = 0 THEN NaN ELSE (i + 1) % Len(keys)

getCurrentKey(keys, i) == KeyAt(keys, i)

getNextKey(keys, i) == KeyAt(keys, NextIndex(keys, i))

-----------------------------------------------------------------------------
(* Generation client: gemini.js *)

\* default value of executeWithRetry's maxRetries parameter
DefaultMaxRetries == 3

NoKeyError == [kind |-> "error", message |-> "No Gemini API key configured"]

\* initGemini throws when getCurrentKey() is falsy, else builds the client
InitGeminiThrows(keys, i) == IsAbsent(getCurrentKey(keys, i))

\* the `model` a successful initGemini leaves behind
InitGeminiModel(keys, i) == getCurrentKey(keys, i)

\* variant: the rotation moves the cursor and rebuilds the client from the
\* key the cursor was on
RotatedModel_StaleKey(keys, i) == getCurrentKey(keys, i)

\* the `model` rotateApiKey leaves behind: a client built from getNextKey()
RotatedModel(keys, i) == getNextKey(keys, i)

\* error.message of the failures the provider call can raise
ErrorMessages ==
    {"429 Too Many Requests", "quota exceeded", "deadline exceeded", "fetch failed"}

ProviderErrors == { [kind |-> "error", message |-> m] : m \in ErrorMessages }

\* String.prototype.includes on the error messages above
MessageIncludes(m, marker) ==
    CASE marker = "429" -> m = "429 Too Many Requests"
      [] marker = "quota" -> m = "quota exceeded"
      [] OTHER -> FALSE

\* variant: every failure is taken for a rate limit
IsRateLimit_AnyError(err) ==
    err.kind = "error"

\* error.message?.includes('429') || error.message?.includes('quota')
IsRateLimit(err) ==
    MessageIncludes(err.message, "429") \/ MessageIncludes(err.message, "quota")

-----------------------------------------------------------------------------
(* Text.  A text is a sequence of word tokens; Thai words are written in   *)
(* transliteration.  String.includes is containment of a contiguous run    *)
(* of tokens, toLowerCase acts token by token.                             *)

\* String.prototype.toLowerCase: only the Latin tokens have an upper case
LowerToken(t) ==
    CASE t = "STAFF" -> "staff"
      [] t = "Staff" -> "staff"
      [] t = "URGENT" -> "urgent"
      [] t = "HUMAN" -> "human"
      [] OTHER -> t

toLowerCase(text) == [k \in 1..Len(text) |-> LowerToken(text[k])]

\* String.prototype.includes
includes(text, phrase) ==
    \E k \in 0..(Len(text) - Len(phrase)) :
        \A j \in 1..Len(phrase) : text[k + j] = phrase[j]

-----------------------------------------------------------------------------
(* Escalation evaluator: escalation.js *)

\* config.ai.confidenceThreshold, default 0.7
ConfidenceThreshold == 70

\* 'ร้องเรียน','complaint','ไม่พอใจ','โกรธ','หลอก','ฉ้อโกง','ปัญหา','เงินหาย',
\* 'ผิดพลาด','error','ฟ้องร้อง','legal','เสียหาย','ขอยกเลิก','ปิดบัญชี','urgent','ด่วน'
SENSITIVE_TOPICS ==
    { <<"rongrian">>, <<"complaint">>, <<"maiphochai">>, <<"krot">>, <<"lok">>,
      <<"chokong">>, <<"panha">>, <<"ngoenhai">>, <<"phitphlat">>, <<"error">>,
      <<"fongrong">>, <<"legal">>, <<"siahai">>, <<"kho", "yoklik">>,
      <<"pitbanchi">>, <<"urgent">>, <<"duan">> }

\* 'ไม่เข้าใจ','พูดซ้ำ','อีกแล้ว','กี่ครั้ง','เมื่อไหร่','ทำไม','ช้า','รอนาน','!!!','???','เบื่อ'
FRUSTRATION_INDICATORS ==
    { <<"maikhaochai">>, <<"phutsam">>, <<"iklaeo">>, <<"kikhrang">>,
      <<"muearai">>, <<"thammai">>, <<"cha">>, <<"ronan">>, <<"!!!">>,
      <<"???">>, <<"buea">> }

highValueIntents == {"COMPLAINT", "LOAN", "ACCOUNT_CLOSE"}

\* 'ขอคุยกับคน','ขอเจ้าหน้าที่','พูดกับคน','operator','staff','human'
humanRequestPhrases ==
    { <<"kho", "khuikap", "khon">>, <<"kho", "chaonathi">>, <<"phutkap", "khon">>,
      <<"operator">>, <<"staff">>, <<"human">> }

\* frustrationScore: the number of indicators the lowered message includes
frustrationScore(message) ==
    Cardinality({ ind \in FRUSTRATION_INDICATORS :
                    includes(toLowerCase(message), toLowerCase(ind)) })

\* variant: the lowConfidence factor uses a threshold of 0.5
EscalationFactors_LowerThreshold(message, aiResponse) ==
    [ lowConfidence |-> aiResponse.confidence < 50,
      sensitiveTopics |->
          \E topic \in SENSITIVE_TOPICS :
              includes(toLowerCase(message), toLowerCase(topic)),
      customerFrustration |-> frustrationScore(message) >= 2,
      highValueIntent |->
          /\ ~IsAbsent(aiResponse.intent)
          /\ aiResponse.intent.intent \in highValueIntents,
      explicitRequest |->
          \E phrase \in humanRequestPhrases :
              includes(toLowerCase(message), toLowerCase(phrase)) ]

\* the factors object at escalation.js line 82
EscalationFactors(message, aiResponse) ==
    [ lowConfidence |-> aiResponse.confidence < ConfidenceThreshold,
      sensitiveTopics |->
          \E topic \in SENSITIVE_TOPICS :
              includes(toLowerCase(message), toLowerCase(topic)),
      customerFrustration |-> frustrationScore(message) >= 2,
      highValueIntent |->
          /\ ~IsAbsent(aiResponse.intent)
          /\ aiResponse.intent.intent \in highValueIntents,
      explicitRequest |->
          \E phrase \in humanRequestPhrases :
              includes(toLowerCase(message), toLowerCase(phrase)) ]

FactorNames ==
    <<"lowConfidence", "sensitiveTopics", "customerFrustration",
      "highValueIntent", "explicitRequest">>

\* Object.values(factors).filter(f => f).length
activeFactors(factors) ==
    Cardinality({ k \in 1..Len(FactorNames) : factors[FactorNames[k]] })

\* variant: the count tier needs more than three factors
EscalationPriority_StrictCount(factors) ==
    IF factors.sensitiveTopics \/ factors.explicitRequest \/ activeFactors(factors) > 3
    THEN "high"
    ELSE IF \/ factors.customerFrustration
            \/ factors.highValueIntent
            \/ activeFactors(factors) >= 2
         THEN "medium"
         ELSE "low"

\* variant: one true factor is enough for the medium tier
EscalationPriority_OneFactorMedium(factors) ==
    IF factors.sensitiveTopics \/ factors.explicitRequest \/ activeFactors(factors) >= 3
    THEN "high"
    ELSE IF \/ factors.customerFrustration
            \/ factors.highValueIntent
            \/ activeFactors(factors) >= 1
         THEN "medium"
         ELSE "low"

\* the priority computed at escalation.js lines 86-93
EscalationPriority(factors) ==
    IF factors.sensitiveTopics \/ factors.explicitRequest \/ activeFactors(factors) >= 3
    THEN "high"
    ELSE IF \/ factors.customerFrustration
            \/ factors.highValueIntent
            \/ activeFactors(factors) >= 2
         THEN "medium"
         ELSE "low"

\* 'AI ไม่แน่ใจในคำตอบ', 'เรื่องที่ต้องพิจารณาเป็นพิเศษ', 'ลูกค้าอาจไม่พอใจ',
\* 'เรื่องสำคัญ', 'ลูกค้าขอคุยกับเจ้าหน้าที่'; the joined list, or 'ไม่ระบุ'
getEscalationReason(factors) ==
    LET reasons ==
            (IF factors.lowConfidence THEN <<"AI unsure of the answer">> ELSE <<>>)
         \o (IF factors.sensitiveTopics THEN <<"needs special consideration">> ELSE <<>>)
         \o (IF factors.customerFrustration THEN <<"customer may be unhappy">> ELSE <<>>)
         \o (IF factors.highValueIntent THEN <<"important matter">> ELSE <<>>)
         \o (IF factors.explicitRequest THEN <<"customer asks for staff">> ELSE <<>>)
    IN  IF reasons = <<>> THEN <<"unspecified">> ELSE reasons

\* variant: escalation needs two active factors instead of one
shouldEscalate_TwoFactors(message, aiResponse) ==
    LET factors == EscalationFactors(message, aiResponse)
    IN  [ kind |-> "object",
          shouldEscalate |-> activeFactors(factors) >= 2,
          factors |-> factors,
          reason |-> getEscalationReason(factors),
          priority |-> EscalationPriority(factors) ]

shouldEscalate(message, aiResponse) ==
    LET factors == EscalationFactors(message, aiResponse)
    IN  [ kind |-> "object",
          shouldEscalate |-> \E k \in 1..Len(FactorNames) : factors[FactorNames[k]],
          factors |-> factors,
          reason |-> getEscalationReason(factors),
          priority |-> EscalationPriority(factors) ]

-----------------------------------------------------------------------------
(* Response generator, intent classifier and quick-reply bodies: gemini.js *)

\* 'ไม่แน่ใจ', 'อาจจะ', 'น่าจะ', 'คิดว่า', 'ลองติดต่อ'
uncertaintyPhrases ==
    { <<"mainaechai">>, <<"atcha">>, <<"nacha">>, <<"khitwa">>, <<"longtitto">> }

Max(a, b) == IF a >= b THEN a ELSE b
Min(a, b) == IF a <= b THEN a ELSE b

\* variant: the confidence is returned without the final clamp
calculateConfidence_NoClamp(text) ==
    LET hits == Cardinality({ ph \in uncertaintyPhrases : includes(text.words, ph) })
        c1 == 80 - 10 * hits
        c2 == IF text.length < 100 THEN c1 + 5 ELSE c1
    IN  IF text.length > 500 THEN c2 - 10 ELSE c2

\* variant: no bonus for a short text
calculateConfidence_NoShortBonus(text) ==
    LET hits == Cardinality({ ph \in uncertaintyPhrases : includes(text.words, ph) })
        c1 == 80 - 10 * hits
        c3 == IF text.length > 500 THEN c1 - 10 ELSE c1
    IN  Max(30, Min(100, c3))

\* a generated text: its words and its length in characters.  Hundredths:
\* the doubles the code computes differ from these by less than 1e-15 and
\* always on the upper side, so every comparison below comes out the same.
calculateConfidence(text) ==
    LET hits == Cardinality({ ph \in uncertaintyPhrases : includes(text.words, ph) })
        c1 == 80 - 10 * hits
        c2 == IF text.length < 100 THEN c1 + 5 ELSE c1
        c3 == IF text.length > 500 THEN c2 - 10 ELSE c2
    IN  Max(30, Min(100, c3))

\* the texts the provider answers a generation prompt with
GeneratedTexts ==
    { [kind |-> "text", words |-> <<"sawatdikhrap">>, length |-> 40],
      [kind |-> "text", words |-> <<"atcha", "longtitto">>, length |-> 120],
      [kind |-> "text", words |-> <<"mainaechai">>, length |-> 600] }

\* the object the closure in generateResponse returns (lines 89-93)
GenerateBody(text) ==
    [ kind |-> "object", text |-> text, confidence |-> calculateConfidence(text) ]

\* the intent names the prompt of detectIntent asks for (line 110)
IntentNames ==
    {"OPEN_ACCOUNT", "TRANSFER", "CARD", "LOAN", "COMPLAINT", "GENERAL_INQUIRY",
     "GREETING", "OTHER"}

\* what the provider answers an intent prompt with: text without braces,
\* a brace-delimited run that JSON.parse rejects, or a JSON object, whose
\* intent may be a name the prompt did not offer ("REFUND") and whose
\* confidence may be a number outside 0..1 (1.5)
IntentJsonObjects ==
    { [kind |-> "object", intent |-> i, confidence |-> c, error |-> FALSE] :
        i \in {"LOAN", "GREETING", "REFUND"}, c \in {90, 150} }

IntentReplies ==
    { [kind |-> "text", shape |-> "nobraces", json |-> Undefined],
      [kind |-> "text", shape |-> "badjson", json |-> Undefined] }
    \cup { [kind |-> "text", shape |-> "json", json |-> o] : o \in IntentJsonObjects }

\* the value the closure in detectIntent returns (lines 119-138)
IntentBody(reply) ==
    IF reply.shape = "json"
    THEN reply.json
    ELSE [kind |-> "object", intent |-> "OTHER", confidence |-> 50, error |-> FALSE]

\* the catch block of detectIntent (lines 143-150)
DefaultIntent ==
    [kind |-> "object", intent |-> "GENERAL_INQUIRY", confidence |-> 30, error |-> TRUE]

\* what the provider answers a quick-reply prompt with
QuickReplies ==
    { [kind |-> "text", shape |-> "nobrackets", items |-> 0],
      [kind |-> "text", shape |-> "badjson", items |-> 0],
      [kind |-> "text", shape |-> "json", items |-> 3] }

\* the value the closure in generateQuickReplies returns (lines 204-220)
QuickBody(reply) ==
    IF reply.shape = "json"
    THEN [kind |-> "array", items |-> reply.items]
    ELSE [kind |-> "array", items |-> 3]

Ops == {"generate", "intent", "quick"}

RepliesOf(op) ==
    CASE op = "generate" -> GeneratedTexts
      [] op = "intent" -> IntentReplies
      [] op = "quick" -> QuickReplies

BodyOf(op, reply) ==
    CASE op = "generate" -> GenerateBody(reply)
      [] op = "intent" -> IntentBody(reply)
      [] op = "quick" -> QuickBody(reply)

-----------------------------------------------------------------------------
(* Retry executor: executeWithRetry, gemini.js lines 40-54.  One record    *)
(* per activation: st is where the activation stands ("attempt" while      *)
(* fn() is awaited, "sleep" during the backoff), i the loop counter, key   *)
(* the credential of the client the pending attempt was issued with, and   *)
(* failed the number of attempts that have failed so far; reply is the     *)
(* provider's answer the closure received, if any.  lastErr is the error   *)
(* the catch block of the current iteration received and rotated the       *)
(* number of rotateApiKey calls it made; the next iteration clears both.   *)

Thrown(err) == [kind |-> "throw", error |-> err]

\* the count of rotateApiKey calls: kept from 0 in the specification that
\* observes it, not kept elsewhere
NotCounted == [on |-> FALSE, k |-> 0]

CountedFrom(n) == [on |-> TRUE, k |-> n]

OneMore(count) == IF count.on THEN [count EXCEPT !.k = @ + 1] ELSE count

NoReply == [kind |-> "text", shape |-> "none"]

IdleRun ==
    [st |-> "idle", op |-> "none", i |-> 0, val |-> Undefined, key |-> Null,
     failed |-> 0, reply |-> NoReply, lastErr |-> Null, rotated |-> 0]

\* the first loop iteration: fn() is called with the client that is active now
StartRun(op, client) ==
    [st |-> "attempt", op |-> op, i |-> 0, val |-> Undefined, key |-> client,
     failed |-> 0, reply |-> NoReply, lastErr |-> Null, rotated |-> 0]

\* `return await fn()` when fn resolves; the loop's locals end with the run
AttemptSucceeds(r) ==
    /\ run[r].st = "attempt"
    /\ \E reply \in RepliesOf(run[r].op) :
          run' = [run EXCEPT ![r].st = "returned", ![r].reply = reply,
                                  ![r].val = BodyOf(run[r].op, reply),
                                  ![r].i = 0, ![r].key = Null]
    /\ generationOk' = TRUE
    /\ UNCHANGED <<rotations, poolVars, vectorVars, callVars, handlerVars, harnessVars>>

\* variant: the catch block never rotates
AttemptFails_NeverRotates(r) ==
    /\ run[r].st = "attempt"
    /\ \E err \in ProviderErrors :
          /\ UNCHANGED <<currentKeyIndex, model>>
          /\ IF ~IsRateLimit(err) /\ run[r].i = DefaultMaxRetries - 1
             THEN run' = [run EXCEPT ![r].st = "thrown", ![r].val = err,
                                     ![r].failed = @ + 1, ![r].lastErr = err,
                                     ![r].rotated = 0]
             ELSE run' = [run EXCEPT ![r].st = "sleep", ![r].failed = @ + 1,
                                     ![r].lastErr = err, ![r].rotated = 0]
    /\ UNCHANGED <<apiKeys, vectorVars, callVars, histVars, handlerVars, harnessVars>>

\* the catch block up to the backoff sleep: rotate on a rate-limit marker,
\* rethrow any other error of the last iteration
AttemptFails(r) ==
    /\ run[r].st = "attempt"
    /\ \E err \in ProviderErrors :
          IF IsRateLimit(err)
          THEN /\ currentKeyIndex' = NextIndex(apiKeys, currentKeyIndex)
               /\ model' = RotatedModel(apiKeys, currentKeyIndex)
               /\ rotations' = OneMore(rotations)
               /\ run' = [run EXCEPT ![r].st = "sleep", ![r].failed = @ + 1,
                                       ![r].lastErr = err, ![r].rotated = 1]
          ELSE /\ UNCHANGED <<currentKeyIndex, model, rotations>>
               /\ IF run[r].i = DefaultMaxRetries - 1
                  THEN run' = [run EXCEPT ![r].st = "thrown", ![r].val = err,
                                          ![r].failed = @ + 1, ![r].lastErr = err,
                                          ![r].rotated = 0]
                  ELSE run' = [run EXCEPT ![r].st = "sleep", ![r].failed = @ + 1,
                                          ![r].lastErr = err, ![r].rotated = 0]
    /\ UNCHANGED <<apiKeys, vectorVars, callVars, generationOk, handlerVars,
                   harnessVars>>

\* variant: a rate-limited attempt does not use up an iteration
BackoffElapses_RateLimitFree(r) ==
    /\ run[r].st = "sleep"
    /\ IF IsRateLimit(run[r].lastErr)
       THEN run' = [run EXCEPT ![r].st = "attempt", ![r].key = model,
                               ![r].lastErr = Null, ![r].rotated = 0]
       ELSE IF run[r].i + 1 < DefaultMaxRetries
            THEN run' = [run EXCEPT ![r].st = "attempt", ![r].i = @ + 1,
                                    ![r].key = model, ![r].lastErr = Null,
                                    ![r].rotated = 0]
            ELSE run' = [run EXCEPT ![r].st = "returned", ![r].i = 0, ![r].key = Null,
                                    ![r].val = Undefined]
    /\ UNCHANGED <<poolVars, vectorVars, callVars, histVars, handlerVars, harnessVars>>

\* the sleep resolves: i++, then either the next iteration calls fn() or the
\* loop condition fails and the function falls off its end
BackoffElapses(r) ==
    /\ run[r].st = "sleep"
    /\ IF run[r].i + 1 < DefaultMaxRetries
       THEN run' = [run EXCEPT ![r].st = "attempt", ![r].i = @ + 1, ![r].key = model,
                               ![r].lastErr = Null, ![r].rotated = 0]
       ELSE run' = [run EXCEPT ![r].st = "returned", ![r].i = 0, ![r].key = Null,
                               ![r].val = Undefined]
    /\ UNCHANGED <<poolVars, vectorVars, callVars, histVars, handlerVars, harnessVars>>

RunDone(r) == run[r].st \in {"returned", "thrown"}

\* what `await executeWithRetry(...)` evaluates to in the caller
RunOutcome(r) ==
    IF run[r].st = "thrown" THEN Thrown(run[r].val) ELSE run[r].val

\* detectIntent's try/catch around the retry run (lines 117-151)
DetectIntentOutcome(outcome) ==
    IF outcome.kind = "throw" THEN DefaultIntent ELSE outcome

-----------------------------------------------------------------------------
(* Orchestrator: processMessage, processWithAI, processWithStaffAssist     *)

Modes == {"ai-auto", "staff-assist"}

\* the inbound texts of the orchestrator runs:
\* "สวัสดีครับ", "ขอคุยกับเจ้าหน้าที่", "ทำไม ช้า ด่วน"
SampleMessages ==
    { <<"sawatdikhrap">>, <<"kho", "khuikap", "chaonathi">>, <<"thammai", "cha", "duan">> }

\* 'ขออภัยครับ ระบบขัดข้อง กรุณาลองใหม่อีกครั้งหรือติดต่อเจ้าหน้าที่ในเวลาทำการครับ'
ApologyText == [kind |-> "text", words |-> <<"khoaphai", "rabopkhatkhong">>, length |-> 79]

\* variant: a fallback that does not ask for escalation
FallbackResult_NoEscalation ==
    [ kind |-> "result", shape |-> "fallback",
      aiResponse |-> ApologyText, confidence |-> 0,
      shouldEscalate |-> FALSE, escalationReason |-> <<"system_error">>,
      priority |-> "low", suggestedReplies |-> Undefined ]

\* the object the catch block of processMessage returns (lines 69-75)
FallbackResult ==
    [ kind |-> "result", shape |-> "fallback",
      aiResponse |-> ApologyText, confidence |-> 0,
      shouldEscalate |-> TRUE, escalationReason |-> <<"system_error">>,
      priority |-> "high", suggestedReplies |-> Undefined ]

\* the object processWithAI returns (lines 102-112)
AIResult(ai, check) ==
    [ kind |-> "result", shape |-> "ai",
      aiResponse |-> ai.text, confidence |-> ai.confidence,
      shouldEscalate |-> check.shouldEscalate, escalationReason |-> check.reason,
      priority |-> check.priority, suggestedReplies |-> Undefined ]

\* the object processWithStaffAssist returns (lines 125-136); it has no
\* aiResponse, confidence or escalation fields
StaffResult(replies) ==
    [ kind |-> "result", shape |-> "staff",
      aiResponse |-> Undefined, confidence |-> Undefined,
      shouldEscalate |-> Undefined, escalationReason |-> Undefined,
      priority |-> Undefined, suggestedReplies |-> replies ]

NoCall ==
    /\ mode = "none"
    /\ messageText = <<>>
    /\ customerInfo = Undefined
    /\ intent = Undefined
    /\ context = Undefined
    /\ aiResult = Undefined
    /\ suggestedReplies = Undefined
    /\ escalationCheck = Undefined
    /\ result = Undefined

\* variant: a catch block that logs and rethrows
Fallback_Rethrows ==
    /\ pc' = "done"
    /\ result' = Thrown([kind |-> "error", message |-> "rethrown"])

\* the catch block of processMessage: the call resolves with the fallback
Fallback ==
    /\ pc' = "done"
    /\ result' = FallbackResult

\* processMessage is entered (webhook.js lines 259, 278)
ProcessMessage ==
    /\ pc = "idle"
    /\ \E m \in Modes, text \in SampleMessages :
          /\ mode' = m
          /\ messageText' = text
    /\ pc' = "getCustomer"
    /\ generationOk' = FALSE
    /\ UNCHANGED <<rotations, poolVars, vectorVars, run, customerInfo, intent, context,
                   aiResult, suggestedReplies, escalationCheck, result,
                   handlerVars, harnessVars>>

\* await getOrCreateCustomer(senderId): a stored customer with or without a
\* name, or a database failure
GetOrCreateCustomer ==
    /\ pc = "getCustomer"
    /\ \/ /\ customerInfo' = [kind |-> "object", name |-> "known"]
          /\ pc' = "detectIntent"
          /\ UNCHANGED result
       \/ /\ customerInfo' = [kind |-> "object", name |-> "null"]
          /\ pc' = "getProfile"
          /\ UNCHANGED result
       \/ /\ Fallback
          /\ UNCHANGED customerInfo
    /\ UNCHANGED <<poolVars, vectorVars, run, mode, messageText, intent, context,
                   aiResult, suggestedReplies, escalationCheck, handlerVars, harnessVars>>
    /\ UNCHANGED histVars

\* await getUserProfile(senderId): the profile, or null when the Graph API
\* request fails (the function catches its own errors)
GetUserProfile ==
    /\ pc = "getProfile"
    /\ \/ customerInfo' = [customerInfo EXCEPT !.name = "known"]
       \/ UNCHANGED customerInfo
    /\ pc' = "detectIntent"
    /\ UNCHANGED <<poolVars, vectorVars, run, mode, messageText, intent, context,
                   aiResult, suggestedReplies, escalationCheck, result,
                   handlerVars, harnessVars>>
    /\ UNCHANGED histVars

\* detectIntent up to its first await: `if (!model) initGemini()` outside the
\* try block, then the retry run is started
DetectIntentCall ==
    /\ pc = "detectIntent"
    /\ IF model.kind = "null" /\ InitGeminiThrows(apiKeys, currentKeyIndex)
       THEN /\ intent' = Thrown(NoKeyError)
            /\ pc' = "intentDone"
            /\ UNCHANGED <<model, run>>
       ELSE /\ model' = IF model.kind = "null"
                        THEN InitGeminiModel(apiKeys, currentKeyIndex)
                        ELSE model
            /\ run' = [run EXCEPT ![1] = StartRun("intent", model')]
            /\ pc' = "awaitIntent"
            /\ UNCHANGED intent
    /\ UNCHANGED <<apiKeys, currentKeyIndex, vectorVars, mode, messageText,
                   customerInfo, context, aiResult, suggestedReplies,
                   escalationCheck, result, handlerVars, harnessVars>>
    /\ UNCHANGED histVars

\* the retry run of detectIntent settles: its value is returned, its error is
\* replaced by the default intent
DetectIntentReturn ==
    /\ pc = "awaitIntent"
    /\ RunDone(1)
    /\ intent' = DetectIntentOutcome(RunOutcome(1))
    /\ pc' = "intentDone"
    /\ UNCHANGED <<poolVars, vectorVars, run, mode, messageText, customerInfo, context,
                   aiResult, suggestedReplies, escalationCheck, result,
                   handlerVars, harnessVars>>
    /\ UNCHANGED histVars

\* processMessage resumes after `await detectIntent(...)`: a rejection goes to
\* the catch block, and so does the read of intent.intent on undefined
AfterDetectIntent ==
    /\ pc = "intentDone"
    /\ IF intent.kind \in {"throw", "undefined"}
       THEN Fallback
       ELSE pc' = "queryRelevant" /\ UNCHANGED result
    /\ run' = [run EXCEPT ![1] = IdleRun]
    /\ UNCHANGED <<poolVars, vectorVars, mode, messageText, customerInfo,
                   intent, context, aiResult, suggestedReplies, escalationCheck,
                   handlerVars, harnessVars>>
    /\ UNCHANGED histVars

\* initVectorDB (pinecone.js lines 22-46): the Pinecone constructor throws,
\* or index and genAI are assigned and describeIndexStats then fails or answers
InitOutcomes == {"constructor throws", "stats fail", "ok"}

InitVectorDBIndex(outcome) == IF outcome = "constructor throws" THEN index ELSE "set"

InitVectorDBThrows(outcome) == outcome # "ok"

\* queryRelevant up to the try block: `if (!index) await initVectorDB()`
QueryRelevantCall ==
    /\ pc = "queryRelevant"
    /\ IF index = "null"
       THEN \E outcome \in InitOutcomes :
               /\ index' = InitVectorDBIndex(outcome)
               /\ embedClient' = InitVectorDBIndex(outcome)
               /\ IF InitVectorDBThrows(outcome)
                  THEN /\ context' = Thrown([kind |-> "error", message |-> outcome])
                       /\ pc' = "contextDone"
                  ELSE /\ pc' = "queryIndex"
                       /\ UNCHANGED context
       ELSE /\ pc' = "queryIndex"
            /\ UNCHANGED <<vectorVars, context>>
    /\ UNCHANGED <<poolVars, run, mode, messageText, customerInfo, intent,
                   aiResult, suggestedReplies, escalationCheck, result,
                   handlerVars, harnessVars>>
    /\ UNCHANGED histVars

\* the try block of queryRelevant: the embedding (a zero vector when the
\* embedding call fails), then the index query; a failed query gives []
QueryOutcomes == {"query fails", "no matches", "matches"}

QueryRelevantBody(embeddingOk, outcome) ==
    IF outcome = "matches"
    THEN [kind |-> "array", items |-> IF embeddingOk THEN 2 ELSE 1]
    ELSE [kind |-> "array", items |-> 0]

QueryRelevantReturn ==
    /\ pc = "queryIndex"
    /\ \E embeddingOk \in BOOLEAN, outcome \in QueryOutcomes :
          /\ embeddingOk => embedClient = "set"
          /\ context' = QueryRelevantBody(embeddingOk, outcome)
    /\ pc' = "contextDone"
    /\ UNCHANGED <<poolVars, vectorVars, run, mode, messageText, customerInfo,
                   intent, aiResult, suggestedReplies, escalationCheck, result,
                   handlerVars, harnessVars>>
    /\ UNCHANGED histVars

\* processMessage resumes after `await queryRelevant(...)`
AfterQueryRelevant ==
    /\ pc = "contextDone"
    /\ IF context.kind = "throw"
       THEN Fallback
       ELSE pc' = "saveMessage" /\ UNCHANGED result
    /\ UNCHANGED <<poolVars, vectorVars, run, mode, messageText, customerInfo,
                   intent, context, aiResult, suggestedReplies, escalationCheck,
                   handlerVars, harnessVars>>
    /\ UNCHANGED histVars

\* await saveMessage({... sender: 'customer' ...})
SaveIncomingMessage ==
    /\ pc = "saveMessage"
    /\ \/ pc' = "updateActivity" /\ UNCHANGED result
       \/ Fallback
    /\ UNCHANGED <<poolVars, vectorVars, run, mode, messageText, customerInfo,
                   intent, context, aiResult, suggestedReplies, escalationCheck,
                   handlerVars, harnessVars>>
    /\ UNCHANGED histVars

\* await updateCustomerActivity(...), then the branch on mode
UpdateCustomerActivity ==
    /\ pc = "updateActivity"
    /\ \/ /\ pc' = IF mode = "ai-auto" THEN "generateResponse" ELSE "quickReplies"
          /\ UNCHANGED result
       \/ Fallback
    /\ UNCHANGED <<poolVars, vectorVars, run, mode, messageText, customerInfo,
                   intent, context, aiResult, suggestedReplies, escalationCheck,
                   handlerVars, harnessVars>>
    /\ UNCHANGED histVars

\* generateResponse / generateQuickReplies up to the first await:
\* `if (!model) initGemini()`, then executeWithRetry is entered
GenerationCall(at, op, next) ==
    /\ pc = at
    /\ IF model.kind = "null" /\ InitGeminiThrows(apiKeys, currentKeyIndex)
       THEN /\ Fallback
            /\ UNCHANGED <<model, run>>
       ELSE /\ model' = IF model.kind = "null"
                        THEN InitGeminiModel(apiKeys, currentKeyIndex)
                        ELSE model
            /\ run' = [run EXCEPT ![1] = StartRun(op, model')]
            /\ pc' = next
            /\ UNCHANGED result
    /\ UNCHANGED <<apiKeys, currentKeyIndex, vectorVars, mode, messageText,
                   customerInfo, intent, context, aiResult, suggestedReplies,
                   escalationCheck, handlerVars, harnessVars>>
    /\ UNCHANGED histVars

GenerateResponseCall == GenerationCall("generateResponse", "generate", "awaitResponse")

\* processWithAI resumes after `await generateResponse(...)`: a rejection and
\* the read of aiResult.text on undefined both end in the catch block of
\* processMessage; otherwise shouldEscalate is evaluated
ProcessWithAI ==
    /\ pc = "awaitResponse"
    /\ RunDone(1)
    /\ aiResult' = RunOutcome(1)
    /\ run' = [run EXCEPT ![1] = IdleRun]
    /\ IF aiResult'.kind \in {"throw", "undefined"}
       THEN /\ Fallback
            /\ UNCHANGED escalationCheck
       ELSE /\ escalationCheck' =
                   shouldEscalate(messageText,
                       [confidence |-> aiResult'.confidence, intent |-> intent])
            /\ pc' = "saveReply"
            /\ UNCHANGED result
    /\ UNCHANGED <<poolVars, vectorVars, mode, messageText, customerInfo, intent,
                   context, suggestedReplies, handlerVars, harnessVars>>
    /\ UNCHANGED histVars

\* await saveMessage({... sender: 'ai' ...}), then the result object
SaveAIReply ==
    /\ pc = "saveReply"
    /\ \/ /\ pc' = "done"
          /\ result' = AIResult(aiResult, escalationCheck)
       \/ Fallback
    /\ UNCHANGED <<poolVars, vectorVars, run, mode, messageText, customerInfo,
                   intent, context, aiResult, suggestedReplies, escalationCheck,
                   handlerVars, harnessVars>>
    /\ UNCHANGED histVars

QuickRepliesCall == GenerationCall("quickReplies", "quick", "awaitReplies")

\* processWithStaffAssist resumes after `await generateQuickReplies(...)`
ProcessWithStaffAssist ==
    /\ pc = "awaitReplies"
    /\ RunDone(1)
    /\ suggestedReplies' = RunOutcome(1)
    /\ run' = [run EXCEPT ![1] = IdleRun]
    /\ IF suggestedReplies'.kind = "throw"
       THEN Fallback
       ELSE pc' = "recentMessages" /\ UNCHANGED result
    /\ UNCHANGED <<poolVars, vectorVars, mode, messageText, customerInfo, intent,
                   context, aiResult, escalationCheck, handlerVars, harnessVars>>
    /\ UNCHANGED histVars

\* await getRecentMessages(senderId, 10), then the result object
GetRecentMessages ==
    /\ pc = "recentMessages"
    /\ \/ /\ pc' = "done"
          /\ result' = StaffResult(suggestedReplies)
       \/ Fallback
    /\ UNCHANGED <<poolVars, vectorVars, run, mode, messageText, customerInfo,
                   intent, context, aiResult, suggestedReplies, escalationCheck,
                   handlerVars, harnessVars>>
    /\ UNCHANGED histVars

\* 'ขอบคุณสำหรับข้อความครับ เรื่องนี้ต้องให้เจ้าหน้าที่ดูแลโดยตรง ...'
EscalationNotice ==
    [kind |-> "text", words |-> <<"khopkhun", "chaonathi", "titto", "klap">>, length |-> 118]

\* 'หากคำตอบไม่ตรงกับที่ต้องการ สามารถสอบถามเจ้าหน้าที่ได้ในเวลาทำการ ...'
LowConfidenceHint ==
    [kind |-> "text", words |-> <<"hak", "khamtop", "maitrong">>, length |-> 84]

\* 'ได้รับข้อความแล้วครับ รอสักครู่นะครับ เจ้าหน้าที่กำลังดูแลอยู่ครับ'
StaffAck ==
    [kind |-> "text", words |-> <<"dairap", "khokhwam", "laeo">>, length |-> 65]

NothingDelivered == [sent |-> <<>>, events |-> <<>>, failed |-> FALSE]

\* variant: the generated reply is sent ahead of the escalation notice
OutsideHoursDelivery_ReplyThenNotice(res, sendOk) ==
    [ sent |-> IF sendOk
               THEN <<res.aiResponse>>
                    \o (IF res.shouldEscalate THEN <<EscalationNotice>> ELSE <<>>)
               ELSE <<>>,
      events |->
          (IF res.shouldEscalate
           THEN <<[name |-> "escalation-needed", reason |-> res.escalationReason,
                   priority |-> res.priority]>>
           ELSE <<>>)
          \o (IF sendOk THEN <<[name |-> "ai-response"]>> ELSE <<>>),
      failed |-> ~sendOk ]

\* the sends and events of handleOutsideBusinessHours after processMessage
\* resolved with res; sendOk says whether the sendMessage calls succeed
\* (a failed send rejects the handler before anything later in it runs)
OutsideHoursDelivery(res, sendOk) ==
    IF res.shouldEscalate
    THEN [ sent |-> IF sendOk THEN <<EscalationNotice>> ELSE <<>>,
           events |->
               <<[name |-> "escalation-needed", reason |-> res.escalationReason,
                  priority |-> res.priority]>>
               \o (IF sendOk THEN <<[name |-> "ai-response"]>> ELSE <<>>),
           failed |-> ~sendOk ]
    ELSE [ sent |->
               IF sendOk
               THEN <<res.aiResponse>>
                    \o (IF res.confidence < ConfidenceThreshold
                        THEN <<LowConfidenceHint>>
                        ELSE <<>>)
               ELSE <<>>,
           events |-> IF sendOk THEN <<[name |-> "ai-response"]>> ELSE <<>>,
           failed |-> ~sendOk ]

\* handleOutsideBusinessHours resumes after `await processMessage(...)`
HandleOutsideBusinessHours ==
    /\ pc = "done"
    /\ mode = "ai-auto"
    /\ IF result.kind = "throw"
       THEN delivered' = [NothingDelivered EXCEPT !.failed = TRUE]
       ELSE \E sendOk \in BOOLEAN :
               delivered' = OutsideHoursDelivery(result, sendOk)
    /\ pc' = "handled"
    /\ UNCHANGED <<poolVars, vectorVars, run, mode, messageText, customerInfo,
                   intent, context, aiResult, suggestedReplies, escalationCheck,
                   result, histVars, harnessVars, pending, customers>>

\* the event and the send of handleDuringBusinessHours after processMessage
DuringHoursDelivery(res, sendOk) ==
    [ sent |-> IF sendOk THEN <<StaffAck>> ELSE <<>>,
      events |-> <<[name |-> "staff-required", suggestedReplies |-> res.suggestedReplies]>>,
      failed |-> ~sendOk ]

\* handleDuringBusinessHours resumes after `await processMessage(...)`
HandleDuringBusinessHours ==
    /\ pc = "done"
    /\ mode = "staff-assist"
    /\ IF result.kind = "throw"
       THEN delivered' = [NothingDelivered EXCEPT !.failed = TRUE]
       ELSE \E sendOk \in BOOLEAN :
               delivered' = DuringHoursDelivery(result, sendOk)
    /\ pc' = "handled"
    /\ UNCHANGED <<poolVars, vectorVars, run, mode, messageText, customerInfo,
                   intent, context, aiResult, suggestedReplies, escalationCheck,
                   result, histVars, harnessVars, pending, customers>>

\* the handler has finished; the next inbound message may arrive
ReturnToCaller ==
    /\ pc = "handled"
    /\ pc' = "idle"
    /\ delivered' = NothingDelivered
    /\ mode' = "none"
    /\ messageText' = <<>>
    /\ customerInfo' = Undefined
    /\ intent' = Undefined
    /\ context' = Undefined
    /\ aiResult' = Undefined
    /\ suggestedReplies' = Undefined
    /\ escalationCheck' = Undefined
    /\ result' = Undefined
    /\ generationOk' = FALSE
    /\ UNCHANGED <<rotations, poolVars, vectorVars, run, harnessVars, pending,
                   customers>>

\* startServer awaits initVectorDB before it listens; a failure there ends
\* the process, so only the successful initialisation has a successor
StartServerInitVectorDB ==
    /\ pc = "idle"
    /\ index = "null"
    /\ index' = InitVectorDBIndex("ok")
    /\ embedClient' = InitVectorDBIndex("ok")
    /\ UNCHANGED <<poolVars, run, callVars, handlerVars, harnessVars>>
    /\ UNCHANGED histVars

-----------------------------------------------------------------------------
(* Pending messages: models/pendingMessage.js and api/routes/pending.js    *)

\* a request slot of the admin API: idle, or inside a send / send-all
\* handler that awaits forceSendMessage for the head of its list
IdleRequest == [st |-> "idle", queue |-> <<>>]

\* pending_messages: the status of each row, and for each row the status it
\* had at every forceSendMessage call made for it
NoPending ==
    [status |-> <<>>, calls |-> <<>>, reqs |-> [r \in Runs |-> IdleRequest]]

PendingIds == DOMAIN pending.status

\* getPendingMessages('approved') / getApprovedMessages(): the approved rows
ApprovedMessages ==
    SelectSeq([k \in 1..Len(pending.status) |-> k],
              LAMBDA k : pending.status[k] = "approved")

\* forceSendMessage(message.recipient_id, message.message) is called for row
\* m while the table holds `status`
ForceSendCalled(calls, status, m) ==
    [calls EXCEPT ![m] = Append(@, status[m])]

\* the forceSendMessage calls are followed up to MaxForwards per row
WithinForwards(calls) ==
    \A m \in DOMAIN calls : Len(calls[m]) <= MaxForwards

\* POST /:id/approve: approvePendingMessage updates the row whatever its status
ApprovePending(m) ==
    /\ m \in PendingIds
    /\ pending' = [pending EXCEPT !.status[m] = "approved"]
    /\ UNCHANGED <<poolVars, vectorVars, run, callVars, histVars, delivered,
                   customers, harnessVars>>

\* POST /:id/reject: rejectPendingMessage updates the row whatever its status
RejectPending(m) ==
    /\ m \in PendingIds
    /\ pending' = [pending EXCEPT !.status[m] = "rejected"]
    /\ UNCHANGED <<poolVars, vectorVars, run, callVars, histVars, delivered,
                   customers, harnessVars>>

\* POST /:id/send up to its await: 404 unless the row is among the approved
\* ones, else forceSendMessage is called
PostSend(r, m) ==
    /\ m \in PendingIds
    /\ pending.reqs[r].st = "idle"
    /\ IF \E k \in 1..Len(ApprovedMessages) : ApprovedMessages[k] = m
       THEN pending' = [pending EXCEPT
                           !.calls = ForceSendCalled(@, pending.status, m),
                           !.reqs[r] = [st |-> "awaitForceSend", queue |-> <<m>>]]
       ELSE UNCHANGED pending
    /\ WithinForwards(pending'.calls)
    /\ UNCHANGED <<poolVars, vectorVars, run, callVars, histVars, delivered,
                   customers, harnessVars>>

\* POST /send-all up to its first await: the approved rows are read once and
\* forceSendMessage is called for the first of them
PostSendAll(r) ==
    /\ pending.reqs[r].st = "idle"
    /\ ApprovedMessages # <<>>
    /\ pending' = [pending EXCEPT
                      !.calls = ForceSendCalled(@, pending.status, Head(ApprovedMessages)),
                      !.reqs[r] = [st |-> "awaitForceSend", queue |-> ApprovedMessages]]
    /\ WithinForwards(pending'.calls)
    /\ UNCHANGED <<poolVars, vectorVars, run, callVars, histVars, delivered,
                   customers, harnessVars>>

\* the Graph API answers: on success markMessageSent(message.id); then the
\* handler responds, or send-all goes on to the next row of its list
ForceSendSettles(r) ==
    /\ pending.reqs[r].st = "awaitForceSend"
    /\ \E ok \in BOOLEAN :
          LET m == Head(pending.reqs[r].queue)
              rest == Tail(pending.reqs[r].queue)
              marked == IF ok
                        THEN [pending.status EXCEPT ![m] = "sent"]
                        ELSE pending.status
          IN  IF rest = <<>>
              THEN pending' = [pending EXCEPT !.status = marked,
                                              !.reqs[r] = IdleRequest]
              ELSE pending' = [pending EXCEPT
                                  !.status = marked,
                                  !.calls = ForceSendCalled(@, marked, Head(rest)),
                                  !.reqs[r].queue = rest]
    /\ WithinForwards(pending'.calls)
    /\ UNCHANGED <<poolVars, vectorVars, run, callVars, histVars, delivered,
                   customers, harnessVars>>

-----------------------------------------------------------------------------
(* Customers: models/customer.js and the prompt of generateResponse        *)

CustomerIds == 1..NumCustomers

\* customers: the date, the stored rows, and per customer the dates of the
\* contacts so far and the count the last prompt showed
NoCustomers ==
    [day |-> 0, rows |-> <<>>, contacted |-> <<>>, prompted |-> <<>>]

TablesIdle ==
    /\ pending = NoPending
    /\ customers = NoCustomers

\* the row getOrCreateCustomer returns: the stored one, or a new one with
\* first_contact = last_contact = now and no conversations
CustomerRow(row, now) ==
    IF row.kind = "row"
    THEN row
    ELSE [kind |-> "row", last_contact |-> now, total_conversations |-> 0]

\* the two UPDATE statements of updateCustomerActivity, in their order:
\* last_contact is set to now, then total_conversations is incremented
\* WHERE date(last_contact) != date(now)
ActivityUpdated(row, now) ==
    LET first == [row EXCEPT !.last_contact = now]
    IN  IF first.last_contact # now
        THEN [first EXCEPT !.total_conversations = @ + 1]
        ELSE first

\* `${customerInfo.totalChats || 0}` in the prompt of generateResponse
PromptChats(info) ==
    IF "totalChats" \in DOMAIN info /\ info.totalChats # 0
    THEN info.totalChats
    ELSE 0

\* midnight (UTC) passes
DayPasses ==
    /\ customers.day \in 1..(MaxDays - 1)
    /\ customers' = [customers EXCEPT !.day = @ + 1]
    /\ UNCHANGED <<poolVars, vectorVars, run, callVars, histVars, delivered,
                   pending, harnessVars>>

\* a message of customer c is processed in ai-auto mode: getOrCreateCustomer,
\* updateCustomerActivity, then generateResponse with the customerInfo that
\* getOrCreateCustomer returned
CustomerContact(c) ==
    /\ customers.day >= 1
    /\ LET now == customers.day
           info == CustomerRow(customers.rows[c], now)
       IN  customers' = [customers EXCEPT
                            !.rows[c] = ActivityUpdated(info, now),
                            !.contacted[c] = @ \cup {now},
                            !.prompted[c] = PromptChats(info)]
    /\ UNCHANGED <<poolVars, vectorVars, run, callVars, histVars, delivered,
                   pending, harnessVars>>

-----------------------------------------------------------------------------
(* The pipeline specification *)

\* module load: gemini.js runs initGemini inside try/catch; pinecone.js and
\* the orchestrator hold no state yet
LoadedModel(keys) ==
    IF InitGeminiThrows(keys, 0) THEN Null ELSE InitGeminiModel(keys, 0)

IdleEsc == [st |-> "unused", message |-> <<>>, ai |-> Undefined, verdict |-> Undefined]

IdleConf == [st |-> "unused", text |-> Undefined, confidence |-> 0]

IdleRot == [st |-> "unused", op |-> "none", before |-> 0, pool |-> <<>>,
            returned |-> Undefined, original |-> Undefined, count |-> 0]

HarnessesIdle ==
    /\ esc = IdleEsc
    /\ conf = IdleConf
    /\ rot = IdleRot

Init ==
    /\ apiKeys \in Pools
    /\ currentKeyIndex = 0
    /\ model = LoadedModel(apiKeys)
    /\ index = "null"
    /\ embedClient = "null"
    /\ run = [r \in Runs |-> IdleRun]
    /\ pc = "idle"
    /\ NoCall
    /\ generationOk = FALSE
    /\ rotations = NotCounted
    /\ delivered = NothingDelivered
    /\ TablesIdle
    /\ HarnessesIdle

Next ==
    \/ ProcessMessage
    \/ GetOrCreateCustomer
    \/ GetUserProfile
    \/ DetectIntentCall
    \/ DetectIntentReturn
    \/ AfterDetectIntent
    \/ QueryRelevantCall
    \/ QueryRelevantReturn
    \/ AfterQueryRelevant
    \/ SaveIncomingMessage
    \/ UpdateCustomerActivity
    \/ GenerateResponseCall
    \/ ProcessWithAI
    \/ SaveAIReply
    \/ QuickRepliesCall
    \/ ProcessWithStaffAssist
    \/ GetRecentMessages
    \/ HandleOutsideBusinessHours
    \/ HandleDuringBusinessHours
    \/ ReturnToCaller
    \/ StartServerInitVectorDB
    \/ \E r \in Runs : AttemptSucceeds(r)
    \/ \E r \in Runs : AttemptFails(r)
    \/ \E r \in Runs : BackoffElapses(r)

Spec == Init /\ [][Next]_vars

-----------------------------------------------------------------------------
(* The escalation evaluator on its own: shouldEscalate applied to every    *)
(* message of at most MaxMsgLen tokens over MessageTokens and to AI        *)
(* results on both sides of the confidence threshold.                      *)

\* "ขอ", "คุยกับ", "เจ้าหน้าที่", "ด่วน", "ทำไม", "ช้า", "STAFF", "สวัสดีครับ"
MessageTokens ==
    {"kho", "khuikap", "chaonathi", "duan", "thammai", "cha", "STAFF", "sawatdikhrap"}

RECURSIVE TextsOfLength(_)
TextsOfLength(n) ==
    IF n = 0
    THEN {<<>>}
    ELSE { Append(t, w) : t \in TextsOfLength(n - 1), w \in MessageTokens }

Messages == UNION { TextsOfLength(n) : n \in 0..MaxMsgLen }

EvaluatorInputs ==
    { [confidence |-> c,
       intent |-> [kind |-> "object", intent |-> i, confidence |-> 90, error |-> FALSE]] :
        c \in {ConfidenceThreshold - 1, ConfidenceThreshold}, i \in {"LOAN", "GREETING"} }

InitEsc ==
    /\ apiKeys = [k \in 1..MaxKeys |-> KeyName(k)]
    /\ currentKeyIndex = 0
    /\ model = LoadedModel(apiKeys)
    /\ index = "null"
    /\ embedClient = "null"
    /\ run = [r \in Runs |-> IdleRun]
    /\ pc = "idle"
    /\ NoCall
    /\ generationOk = FALSE
    /\ rotations = NotCounted
    /\ delivered = NothingDelivered
    /\ TablesIdle
    /\ conf = IdleConf
    /\ rot = IdleRot
    /\ \E m \in Messages, ai \in EvaluatorInputs :
          esc = [st |-> "input", message |-> m, ai |-> ai, verdict |-> Undefined]

\* await shouldEscalate(message, aiResponse)
EvaluateEscalation ==
    /\ esc.st = "input"
    /\ esc' = [esc EXCEPT !.st = "evaluated",
                          !.verdict = shouldEscalate(esc.message, esc.ai)]
    /\ UNCHANGED <<poolVars, vectorVars, run, callVars, histVars, handlerVars,
                   conf, rot>>

NextEsc == EvaluateEscalation

SpecEsc == InitEsc /\ [][NextEsc]_vars

-----------------------------------------------------------------------------
(* Harnesses leave the pipeline where module load put it *)

PipelineIdle ==
    /\ index = "null"
    /\ embedClient = "null"
    /\ run = [r \in Runs |-> IdleRun]
    /\ pc = "idle"
    /\ NoCall
    /\ generationOk = FALSE
    /\ delivered = NothingDelivered
    /\ TablesIdle

-----------------------------------------------------------------------------
(* The response generator's confidence on its own: calculateConfidence     *)
(* applied to every text of at most MaxTextWords words over                *)
(* ConfidenceWords, with lengths on both sides of the two length tests.    *)

\* the five uncertainty phrases and "ครับ", a word that is none of them
ConfidenceWords == {"mainaechai", "atcha", "nacha", "khitwa", "longtitto", "khrap"}

RECURSIVE WordsOfLength(_)
WordsOfLength(n) ==
    IF n = 0
    THEN {<<>>}
    ELSE { Append(t, w) : t \in WordsOfLength(n - 1), w \in ConfidenceWords }

\* response.length: the empty text, and lengths around 100 and 500
TextLengths == {0, 99, 100, 500, 501}

ScoredTexts ==
    { [kind |-> "text", words |-> w, length |-> l] :
        w \in UNION { WordsOfLength(n) : n \in 0..MaxTextWords }, l \in TextLengths \ {0} }
    \cup { [kind |-> "text", words |-> <<>>, length |-> 0] }

InitConf ==
    /\ rotations = NotCounted
    /\ apiKeys = [k \in 1..MaxKeys |-> KeyName(k)]
    /\ currentKeyIndex = 0
    /\ model = LoadedModel(apiKeys)
    /\ PipelineIdle
    /\ esc = IdleEsc
    /\ rot = IdleRot
    /\ \E t \in ScoredTexts : conf = [st |-> "input", text |-> t, confidence |-> 0]

\* confidence: calculateConfidence(response) at gemini.js line 91
ScoreText ==
    /\ conf.st = "input"
    /\ conf' = [conf EXCEPT !.st = "scored",
                            !.confidence = GenerateBody(conf.text).confidence]
    /\ UNCHANGED <<poolVars, vectorVars, run, callVars, histVars, handlerVars,
                   esc, rot>>

NextConf == ScoreText

SpecConf == InitConf /\ [][NextConf]_vars

-----------------------------------------------------------------------------
(* The key pool on its own: getNextKey and getCurrentKey called on every   *)
(* pool of 1..PoolSlots keys.  rot records the last call (the cursor and   *)
(* pool it found, the credential it returned), the credential the last     *)
(* getCurrentKey returned and the number of getNextKey calls since then.   *)

InitPool ==
    /\ rotations = NotCounted
    /\ apiKeys \in { PoolOfSize(n) : n \in 1..PoolSlots }
    /\ currentKeyIndex = 0
    /\ model = LoadedModel(apiKeys)
    /\ PipelineIdle
    /\ esc = IdleEsc
    /\ conf = IdleConf
    /\ rot = [st |-> "ready", op |-> "none", before |-> 0, pool |-> apiKeys,
              returned |-> Undefined,
              original |-> getCurrentKey(apiKeys, 0), count |-> 0]

\* config.gemini.getNextKey(); the series of consecutive rotations is
\* followed up to one call past the pool size
CallGetNextKey ==
    /\ rot.st = "ready"
    /\ rot.count <= Len(apiKeys)
    /\ currentKeyIndex' = NextIndex(apiKeys, currentKeyIndex)
    /\ rot' = [rot EXCEPT !.op = "getNextKey",
                          !.before = currentKeyIndex,
                          !.pool = apiKeys,
                          !.returned = getNextKey(apiKeys, currentKeyIndex),
                          !.count = @ + 1]
    /\ UNCHANGED <<apiKeys, model, vectorVars, run, callVars, histVars, handlerVars,
                   esc, conf>>

\* config.gemini.getCurrentKey(); a new series of rotations starts here
CallGetCurrentKey ==
    /\ rot.st = "ready"
    /\ rot' = [rot EXCEPT !.op = "getCurrentKey",
                          !.before = currentKeyIndex,
                          !.pool = apiKeys,
                          !.returned = getCurrentKey(apiKeys, currentKeyIndex),
                          !.original = getCurrentKey(apiKeys, currentKeyIndex),
                          !.count = 0]
    /\ UNCHANGED <<poolVars, vectorVars, run, callVars, histVars, handlerVars,
                   esc, conf>>

NextPool ==
    \/ CallGetNextKey
    \/ CallGetCurrentKey

SpecPool == InitPool /\ [][NextPool]_vars

-----------------------------------------------------------------------------
(* Concurrently processed messages: each caller slot of Runs holds one     *)
(* call of generateResponse, and the retry runs interleave at their awaits *)
(* (the pending provider call and the backoff sleep).                      *)

InitRetry ==
    /\ rotations = NotCounted
    /\ apiKeys \in Pools
    /\ currentKeyIndex = 0
    /\ model = LoadedModel(apiKeys)
    /\ PipelineIdle
    /\ HarnessesIdle

\* generateResponse is called: `if (!model) initGemini()`, which rejects the
\* call when no key is configured, then executeWithRetry is entered
CallGenerateResponse(r) ==
    /\ pc = "idle"
    /\ run[r].st = "idle"
    /\ IF model.kind = "null" /\ InitGeminiThrows(apiKeys, currentKeyIndex)
       THEN /\ run' = [run EXCEPT ![r] =
                          [IdleRun EXCEPT !.st = "thrown", !.op = "generate",
                                          !.val = NoKeyError]]
            /\ UNCHANGED model
       ELSE /\ model' = IF model.kind = "null"
                        THEN InitGeminiModel(apiKeys, currentKeyIndex)
                        ELSE model
            /\ run' = [run EXCEPT ![r] = StartRun("generate", model')]
    /\ UNCHANGED <<apiKeys, currentKeyIndex, vectorVars, callVars, histVars,
                   handlerVars, harnessVars>>

\* the caller has taken the outcome of its call
GenerateResponseSettles(r) ==
    /\ pc = "idle"
    /\ RunDone(r)
    /\ run' = [run EXCEPT ![r] = IdleRun]
    /\ UNCHANGED <<poolVars, vectorVars, callVars, histVars, handlerVars, harnessVars>>

NextRetry ==
    \/ \E r \in Runs : CallGenerateResponse(r)
    \/ \E r \in Runs : AttemptSucceeds(r)
    \/ \E r \in Runs : AttemptFails(r)
    \/ \E r \in Runs : BackoffElapses(r)
    \/ \E r \in Runs : GenerateResponseSettles(r)

SpecRetry == InitRetry /\ [][NextRetry]_vars

-----------------------------------------------------------------------------
(* The concurrent generateResponse calls with the rotations counted from   *)
(* module load, followed up to MaxRotations rotations.                     *)

InitRot ==
    /\ rotations = CountedFrom(0)
    /\ apiKeys \in Pools
    /\ currentKeyIndex = 0
    /\ model = LoadedModel(apiKeys)
    /\ PipelineIdle
    /\ HarnessesIdle

NextRot ==
    /\ NextRetry
    /\ rotations'.k <= MaxRotations

SpecRot == InitRot /\ [][NextRot]_vars

-----------------------------------------------------------------------------
(* The pending-message queue on its own: MaxPending messages that          *)
(* sendMessage queued in test mode, and the admin API requests on them.    *)

InitPending ==
    /\ rotations = NotCounted
    /\ apiKeys = [k \in 1..MaxKeys |-> KeyName(k)]
    /\ currentKeyIndex = 0
    /\ model = LoadedModel(apiKeys)
    /\ index = "null"
    /\ embedClient = "null"
    /\ run = [r \in Runs |-> IdleRun]
    /\ pc = "idle"
    /\ NoCall
    /\ generationOk = FALSE
    /\ delivered = NothingDelivered
    /\ HarnessesIdle
    /\ customers = NoCustomers
    /\ pending = [NoPending EXCEPT !.status = [m \in 1..MaxPending |-> "pending"],
                                   !.calls = [m \in 1..MaxPending |-> <<>>]]

NextPending ==
    \/ \E m \in 1..MaxPending : ApprovePending(m)
    \/ \E m \in 1..MaxPending : RejectPending(m)
    \/ \E r \in Runs, m \in 1..MaxPending : PostSend(r, m)
    \/ \E r \in Runs : PostSendAll(r)
    \/ \E r \in Runs : ForceSendSettles(r)

SpecPending == InitPending /\ [][NextPending]_vars

-----------------------------------------------------------------------------
(* The customers table on its own: NumCustomers customers writing in,     *)
(* in ai-auto mode, over MaxDays calendar dates.                           *)

InitCustomers ==
    /\ rotations = NotCounted
    /\ apiKeys = [k \in 1..MaxKeys |-> KeyName(k)]
    /\ currentKeyIndex = 0
    /\ model = LoadedModel(apiKeys)
    /\ index = "null"
    /\ embedClient = "null"
    /\ run = [r \in Runs |-> IdleRun]
    /\ pc = "idle"
    /\ NoCall
    /\ generationOk = FALSE
    /\ delivered = NothingDelivered
    /\ HarnessesIdle
    /\ pending = NoPending
    /\ customers = [day |-> 1,
                    rows |-> [c \in CustomerIds |-> Null],
                    contacted |-> [c \in CustomerIds |-> {}],
                    prompted |-> [c \in CustomerIds |-> 0]]

NextCustomers ==
    \/ DayPasses
    \/ \E c \in CustomerIds : CustomerContact(c)

SpecCustomers == InitCustomers /\ [][NextCustomers]_vars

-----------------------------------------------------------------------------
(* The pipeline with its own steps scheduled fairly.  What the program     *)
(* does by itself (continuations after an await, the backoff timer, the    *)
(* database and index calls) eventually happens; the provider's answer to  *)
(* a pending generateContent call is not assumed to come.                  *)

ProgramStep ==
    \/ ProcessMessage
    \/ GetOrCreateCustomer
    \/ GetUserProfile
    \/ DetectIntentCall
    \/ DetectIntentReturn
    \/ AfterDetectIntent
    \/ QueryRelevantCall
    \/ QueryRelevantReturn
    \/ AfterQueryRelevant
    \/ SaveIncomingMessage
    \/ UpdateCustomerActivity
    \/ GenerateResponseCall
    \/ ProcessWithAI
    \/ SaveAIReply
    \/ QuickRepliesCall
    \/ ProcessWithStaffAssist
    \/ GetRecentMessages
    \/ HandleOutsideBusinessHours
    \/ HandleDuringBusinessHours
    \/ ReturnToCaller
    \/ \E r \in Runs : BackoffElapses(r)

SpecLive == Init /\ [][Next]_vars /\ WF_vars(ProgramStep)

-----------------------------------------------------------------------------
(* Properties *)

\* C1: processMessage never propagates an exception: whichever collaborator
\* fails, in either mode, the call completes by handing its caller a result
\* object, never a rejection.
C1_NeverPropagates ==
    pc = "done" => result.kind = "result"

\* C1 witness: a call in which a collaborator failed has completed with a result
C1_Witness ==
    /\ pc = "done"
    /\ result.kind = "result"
    /\ result.shape = "fallback"
    /\ context.kind = "throw"

\* C2: in ai-auto mode, when no provider attempt of the call succeeded
\* (rate-limit failures or others), processMessage returns the fallback result:
\* the apology, confidence 0, shouldEscalate, reason system_error, priority high.
C2_OutageGivesFallback ==
    (pc = "done" /\ mode = "ai-auto" /\ ~generationOk) =>
        /\ result.kind = "result"
        /\ result.aiResponse = ApologyText
        /\ result.confidence = 0
        /\ result.shouldEscalate = TRUE
        /\ result.escalationReason = <<"system_error">>
        /\ result.priority = "high"

\* C2 witness: generateResponse was rate-limited on all of its attempts, no
\* attempt of the call succeeded, and the ai-auto call has completed
C2_Witness ==
    /\ pc = "done"
    /\ mode = "ai-auto"
    /\ ~generationOk
    /\ aiResult.kind = "undefined"
    /\ result.shape = "fallback"

\* C3: every completed processMessage call carries a customer-facing answer:
\* reply text or a defined set of staff suggestions, never neither.
C3_AlwaysAnswered ==
    pc = "done" =>
        \/ ~IsAbsent(result.aiResponse)
        \/ ~IsAbsent(result.suggestedReplies)

\* C4: executeWithRetry never completes normally when every one of its
\* maxRetries attempts failed; it ends by raising an error.
C4_ExhaustedRaises ==
    \A r \in Runs : run[r].failed = DefaultMaxRetries => run[r].st # "returned"

\* C5: queryRelevant never throws; on any failure of the index, of its
\* initialisation or of the embedding step it returns an empty sequence.
C5_QueryNeverThrows ==
    pc = "contextDone" => context.kind = "array"

\* C6: detectIntent never throws to its caller; for every state of the
\* generation client it returns an IntentResult.
C6_DetectIntentNeverThrows ==
    pc = "intentDone" => intent.kind = "object"

\* C7: when the provider's answer to the intent prompt holds no parseable JSON
\* object, detectIntent returns GENERAL_INQUIRY, confidence 0.3, error set.
C7_UnparseableGivesDefault ==
    (pc = "intentDone" /\ run[1].reply.shape \in {"nobraces", "badjson"}) =>
        /\ intent.kind = "object"
        /\ intent.intent = "GENERAL_INQUIRY"
        /\ intent.confidence = 30
        /\ intent.error = TRUE

\* C8: when the intent call fails on all attempts, detectIntent returns the
\* default IntentResult (GENERAL_INQUIRY, 0.3, error set), never undefined.
C8_ExhaustedGivesDefault ==
    (pc = "intentDone" /\ run[1].failed = DefaultMaxRetries) =>
        /\ intent.kind = "object"
        /\ intent.intent = "GENERAL_INQUIRY"
        /\ intent.confidence = 30
        /\ intent.error = TRUE

Count(b) == IF b THEN 1 ELSE 0

FactorCount(f) ==
    Count(f.lowConfidence) + Count(f.sensitiveTopics) + Count(f.customerFrustration)
    + Count(f.highValueIntent) + Count(f.explicitRequest)

\* C9: the verdict has shouldEscalate = true exactly when at least one of
\* lowConfidence, sensitiveTopics, customerFrustration, highValueIntent and
\* explicitRequest is true.
C9_EscalateIffAnyFactor ==
    esc.st = "evaluated" =>
        LET f == esc.verdict.factors
        IN  esc.verdict.shouldEscalate <=>
               \/ f.lowConfidence
               \/ f.sensitiveTopics
               \/ f.customerFrustration
               \/ f.highValueIntent
               \/ f.explicitRequest

\* C9 witness: a verdict with all five factors true
C9_Witness ==
    /\ esc.st = "evaluated"
    /\ FactorCount(esc.verdict.factors) = 5
    /\ esc.verdict.shouldEscalate

\* C10: priority is high iff sensitiveTopics or explicitRequest or at least 3
\* factors are true; otherwise medium iff customerFrustration or
\* highValueIntent or at least 2 factors are true; otherwise low.
C10_PriorityTiers ==
    esc.st = "evaluated" =>
        LET f == esc.verdict.factors
            high == f.sensitiveTopics \/ f.explicitRequest \/ FactorCount(f) >= 3
            medium == f.customerFrustration \/ f.highValueIntent \/ FactorCount(f) >= 2
        IN  /\ (esc.verdict.priority = "high") <=> high
            /\ (esc.verdict.priority = "medium") <=> (~high /\ medium)
            /\ (esc.verdict.priority = "low") <=> (~high /\ ~medium)

\* C10 witness: exactly customerFrustration, highValueIntent and lowConfidence
\* are true, so only the count of three makes the priority high
C10_Witness ==
    /\ esc.st = "evaluated"
    /\ esc.verdict.factors.customerFrustration
    /\ esc.verdict.factors.highValueIntent
    /\ esc.verdict.factors.lowConfidence
    /\ ~esc.verdict.factors.sensitiveTopics
    /\ ~esc.verdict.factors.explicitRequest
    /\ esc.verdict.priority = "high"

\* C11: in ai-auto mode, for the message "ขอคุยกับเจ้าหน้าที่" and any
\* successful generation, the verdict has shouldEscalate = true, priority
\* high and a reason that includes the explicit-human-request description.
C11_HumanRequestEscalates ==
    ( /\ pc = "done"
      /\ mode = "ai-auto"
      /\ messageText = <<"kho", "khuikap", "chaonathi">>
      /\ result.kind = "result"
      /\ result.shape = "ai" ) =>
        /\ result.shouldEscalate = TRUE
        /\ result.priority = "high"
        /\ \E k \in 1..Len(result.escalationReason) :
              result.escalationReason[k] = "customer asks for staff"

\* the generated text holds none of the uncertainty phrases
NoUncertaintyPhrase(text) ==
    \A ph \in uncertaintyPhrases : ~includes(text.words, ph)

\* the ai-auto call for "สวัสดีครับ" that completed with a generated reply
GreetingCase ==
    /\ pc = "done"
    /\ mode = "ai-auto"
    /\ messageText = <<"sawatdikhrap">>
    /\ result.kind = "result"
    /\ result.shape = "ai"
    /\ intent.intent \notin highValueIntents
    /\ NoUncertaintyPhrase(aiResult.text)
    /\ aiResult.text.length < 100

\* C12: in ai-auto mode, for the greeting "สวัสดีครับ" with a non-high-value
\* intent and a generated text shorter than 100 characters without uncertainty
\* phrase, the result has confidence >= 0.85 and shouldEscalate = false.
C12_GreetingNotEscalated ==
    GreetingCase =>
        /\ result.confidence >= 85
        /\ result.shouldEscalate = FALSE

\* C12 witness: such a greeting call, classified GREETING, has completed
C12_Witness ==
    /\ GreetingCase
    /\ intent.intent = "GREETING"
    /\ result.confidence = 85
    /\ result.shouldEscalate = FALSE

\* C13: every confidence the Response Generator produces lies in [0.3, 1.0],
\* for the empty text, for a text longer than 500 characters and for a text
\* that holds every uncertainty phrase.
C13_ConfidenceInRange ==
    conf.st = "scored" => (conf.confidence >= 30 /\ conf.confidence <= 100)

\* C13 witness: a text over 500 characters holding all five uncertainty
\* phrases was scored, and the lower clamp decided its confidence
C13_Witness ==
    /\ conf.st = "scored"
    /\ conf.text.length > 500
    /\ \A ph \in uncertaintyPhrases : includes(conf.text.words, ph)
    /\ conf.confidence = 30

\* an ai-auto call that produced a generated reply of confidence below the
\* configured threshold
LowConfidenceReply ==
    /\ mode = "ai-auto"
    /\ result.kind = "result"
    /\ result.shape = "ai"
    /\ result.confidence < ConfidenceThreshold

\* C14: every ai-auto result whose confidence is below the threshold has
\* shouldEscalate = true, and the webhook handler never sends the customer a
\* generated reply whose confidence is below the threshold.
C14_LowConfidenceEscalated ==
    /\ (pc \in {"done", "handled"} /\ LowConfidenceReply) =>
           result.shouldEscalate = TRUE
    /\ (pc = "handled" /\ LowConfidenceReply) =>
           \A k \in 1..Len(delivered.sent) : delivered.sent[k] # result.aiResponse

\* C14 witness: the handler dealt with a low-confidence reply whose only
\* escalation factor was the confidence, and sent the escalation notice
C14_Witness ==
    /\ pc = "handled"
    /\ LowConfidenceReply
    /\ escalationCheck.reason = <<"AI unsure of the answer">>
    /\ delivered.sent = <<EscalationNotice>>

\* C15: getNextKey on a pool of N >= 1 keys sets the cursor to
\* (old cursor + 1) mod N and returns the credential at the new cursor,
\* leaving the pool unchanged; getCurrentKey returns the credential at the
\* cursor and leaves the cursor unchanged.
C15_RotateAndCurrent ==
    /\ rot.op = "getNextKey" =>
          /\ currentKeyIndex = (rot.before + 1) % Len(rot.pool)
          /\ rot.returned = apiKeys[currentKeyIndex + 1]
          /\ apiKeys = rot.pool
    /\ rot.op = "getCurrentKey" =>
          /\ currentKeyIndex = rot.before
          /\ rot.returned = apiKeys[currentKeyIndex + 1]
          /\ apiKeys = rot.pool

\* C15 witness: getNextKey was called with the cursor on the last of three
\* or more keys and wrapped around to the first
C15_Witness ==
    /\ rot.op = "getNextKey"
    /\ Len(apiKeys) >= 3
    /\ rot.before = Len(apiKeys) - 1
    /\ currentKeyIndex = 0
    /\ rot.returned = apiKeys[1]

\* C16 as stated: after N + 1 consecutive rotations of a pool of N keys the
\* current key is the key that was current before them.
C16_ReturnsAfterNPlusOne ==
    (rot.st = "ready" /\ rot.count = Len(apiKeys) + 1) =>
        getCurrentKey(apiKeys, currentKeyIndex) = rot.original

\* C16 amended: after N consecutive rotations of a pool of N keys the current
\* key is the key that was current before them, for every N >= 1 and every
\* starting cursor.
C16_ReturnsAfterN ==
    (rot.st = "ready" /\ rot.count = Len(apiKeys)) =>
        getCurrentKey(apiKeys, currentKeyIndex) = rot.original

\* C16 witness: N rotations that started in the middle of a pool of three or
\* more keys are back at the key they started from
C16_Witness ==
    /\ rot.st = "ready"
    /\ Len(apiKeys) >= 3
    /\ rot.count = Len(apiKeys)
    /\ currentKeyIndex = 1
    /\ rot.original = apiKeys[2]

\* C17: the cursor is a valid index 0..N-1 into a non-empty pool in every
\* state in which the generation functions are being served (with an empty
\* pool the construction fails fast, so no call is ever accepted), and no
\* client is built from a missing credential.
C17_CursorValid ==
    (\E r \in Runs : run[r].st # "idle") =>
        /\ Len(apiKeys) >= 1
        /\ currentKeyIndex \in 0..(Len(apiKeys) - 1)
        /\ model.kind # "undefined"

\* C18: every IntentResult detectIntent returns is well-formed whatever JSON
\* the provider answered: its intent is one of the eight names of the closed
\* set and its confidence lies in [0, 1].
C18_IntentWellFormed ==
    (pc = "intentDone" /\ intent.kind = "object") =>
        /\ intent.intent \in IntentNames
        /\ intent.confidence >= 0
        /\ intent.confidence <= 100

\* the error carries the rate-limit marker: its message contains '429' or 'quota'
HasRateMarker(err) ==
    /\ err.kind = "error"
    /\ err.message \in {"429 Too Many Requests", "quota exceeded"}

\* C19: within one executeWithRetry run, each attempt that fails with a
\* rate-limit signal is followed by exactly one rotation of the key pool,
\* made before the backoff sleep and so before the run's next attempt.
C19_OneRotationPerRateLimit ==
    \A r \in Runs :
        (run[r].lastErr.kind = "error" /\ HasRateMarker(run[r].lastErr)) =>
            /\ run[r].rotated = 1
            /\ run[r].st \in {"sleep", "returned"}

\* C19 witness: with another run in flight, a run sleeps after its second
\* attempt was rate-limited, having rotated once for it
C19_Witness ==
    \E r \in Runs, q \in Runs :
        /\ q # r
        /\ run[q].st = "attempt"
        /\ run[r].st = "sleep"
        /\ run[r].i = 1
        /\ HasRateMarker(run[r].lastErr)
        /\ run[r].rotated = 1
        /\ Len(apiKeys) >= 2

\* C20: a failed attempt without the rate-limit marker leaves the cursor and
\* the generation client unchanged, and a failed attempt with the marker
\* rotates: executeWithRetry rotates if and only if the failure is a
\* rate-limit signal.
C20_RotatesIffRateLimit ==
    [][ \A r \in Runs :
          (run'[r].failed = run[r].failed + 1) =>
              IF HasRateMarker(run'[r].lastErr)
              THEN /\ currentKeyIndex' = NextIndex(apiKeys, currentKeyIndex)
                   /\ model' = KeyAt(apiKeys, currentKeyIndex')
                   /\ run'[r].rotated = 1
              ELSE /\ currentKeyIndex' = currentKeyIndex
                   /\ model' = model
                   /\ run'[r].rotated = 0 ]_vars

\* C20 witness: on a pool of two keys a run sleeps after a failure that was
\* not a rate limit, with the cursor and the client where its attempt found them
C20_Witness ==
    \E r \in Runs :
        /\ run[r].st = "sleep"
        /\ run[r].lastErr.kind = "error"
        /\ ~HasRateMarker(run[r].lastErr)
        /\ run[r].rotated = 0
        /\ Len(apiKeys) = 2
        /\ currentKeyIndex = 0
        /\ model = run[r].key

\* the number of times the run has invoked the operation: the attempts that
\* failed, and the one that is pending or that succeeded
Attempts(r) ==
    run[r].failed
    + (IF \/ run[r].st = "attempt"
          \/ (run[r].st = "returned" /\ run[r].val.kind # "undefined")
       THEN 1
       ELSE 0)

\* C21: an executeWithRetry run invokes the operation at most maxRetries (3)
\* times whatever the mix of rate-limit and other failures, and a run that
\* has returned or thrown makes no further attempt.
C21_BoundedAttempts ==
    /\ [](\A r \in Runs : Attempts(r) <= DefaultMaxRetries)
    /\ [][ \A r \in Runs :
             RunDone(r) => run'[r].st \in {run[r].st, "idle"} ]_vars

\* C21 witness: with another run in flight, a run has returned the result of
\* its third attempt after two failures
C21_Witness ==
    \E r \in Runs, q \in Runs :
        /\ q # r
        /\ run[q].st \in {"attempt", "sleep"}
        /\ run[r].st = "returned"
        /\ run[r].val.kind = "object"
        /\ run[r].failed = DefaultMaxRetries - 1

\* C22: when executeWithRetry runs interleave at their awaits, every rotation
\* advances the shared cursor by one position modulo the pool size: after k
\* rotations in total the cursor is (initial + k) mod N, within 0..N-1.
C22_CursorFollowsRotations ==
    (rotations.on /\ Len(apiKeys) >= 1) =>
        /\ currentKeyIndex = (0 + rotations.k) % Len(apiKeys)
        /\ currentKeyIndex \in 0..(Len(apiKeys) - 1)

\* C22 witness: two runs have rotated a pool of two keys three times between
\* them, and a run whose attempt failed without a rate limit finds the
\* client on another key than the one its attempt used
C22_Witness ==
    \E r \in Runs, q \in Runs :
        /\ q # r
        /\ Len(apiKeys) = 2
        /\ rotations.k = 3
        /\ run[q].failed >= 1
        /\ run[r].st = "sleep"
        /\ run[r].rotated = 0
        /\ run[r].failed = 1
        /\ model # run[r].key

\* C23: a generation call that never responds fails its call site after a
\* timeout, so a processMessage call that is waiting for the provider still
\* eventually returns.
C23_HungCallReturns ==
    (pc \in {"awaitIntent", "awaitResponse", "awaitReplies"}) ~> (pc = "done")


\* the occurrences of the uncertainty phrases in a text, each one counted
Occurrences(text) ==
    Cardinality({ <<k, ph>> \in (0..Len(text.words)) \X uncertaintyPhrases :
                    /\ k + Len(ph) <= Len(text.words)
                    /\ \A j \in 1..Len(ph) : text.words[k + j] = ph[j] })

\* C24: the confidence of a generated text is 0.8, less 0.1 for every
\* occurrence of an uncertainty phrase (a phrase appearing twice counts
\* twice), plus 0.05 below 100 characters, less 0.1 above 500 characters,
\* clamped to [0.3, 1.0]; lengths 100 and 500 get no length adjustment.
C24_PenaltyPerOccurrence ==
    conf.st = "scored" =>
        conf.confidence =
            Max(30, Min(100, 80 - 10 * Occurrences(conf.text)
                                + (IF conf.text.length < 100 THEN 5 ELSE 0)
                                - (IF conf.text.length > 500 THEN 10 ELSE 0)))


\* the handler finished with a message that processMessage answered in
\* ai-auto mode
HandledOutsideHours ==
    /\ pc = "handled"
    /\ mode = "ai-auto"
    /\ result.kind = "result"

NoticesSent ==
    Cardinality({ k \in 1..Len(delivered.sent) : delivered.sent[k] = EscalationNotice })

ReplySent ==
    \E k \in 1..Len(delivered.sent) : delivered.sent[k] = result.aiResponse

EscalationEventEmitted ==
    \E k \in 1..Len(delivered.events) :
        /\ delivered.events[k].name = "escalation-needed"
        /\ delivered.events[k].reason = result.escalationReason
        /\ delivered.events[k].priority = result.priority

AttemptIssued(r) ==
    /\ run'[r].st = "attempt"
    /\ run[r].st # "attempt"

\* C26: once the generation client exists, the credential it was built from
\* is the pool's key at the cursor, and every generation attempt is issued
\* with the credential that is the pool's current key at that moment.
C26_ClientMatchesCursor ==
    /\ [](model.kind # "null" => model = KeyAt(apiKeys, currentKeyIndex))
    /\ [][ \A r \in Runs :
              AttemptIssued(r) => run'[r].key = KeyAt(apiKeys', currentKeyIndex') ]_vars

\* C26 witness: after rotations by two runs, a run's retry is in flight with
\* the second key of two, which is the key at the cursor
C26_Witness ==
    \E r, q \in Runs :
        /\ q # r
        /\ Len(apiKeys) = 2
        /\ currentKeyIndex = 1
        /\ run[r].st = "attempt"
        /\ run[r].i = 2
        /\ run[r].key = apiKeys[2]
        /\ run[q].st = "sleep"
        /\ run[q].rotated = 1


NamedFactor(f) ==
    f.sensitiveTopics \/ f.explicitRequest \/ f.customerFrustration \/ f.highValueIntent

\* C28: the priority is low exactly when none of sensitiveTopics,
\* explicitRequest, customerFrustration and highValueIntent is true, so a
\* low confidence alone leaves it low, and every verdict with two or more
\* true factors has one of those four true.
C28_LowIffNoNamedFactor ==
    esc.st = "evaluated" =>
        LET f == esc.verdict.factors
        IN  /\ (esc.verdict.priority = "low") <=> ~NamedFactor(f)
            /\ (f.lowConfidence /\ FactorCount(f) = 1) => esc.verdict.priority = "low"
            /\ FactorCount(f) >= 2 => NamedFactor(f)

\* C28 witness: the low confidence is the only true factor; the verdict
\* escalates with priority low
C28_Witness ==
    /\ esc.st = "evaluated"
    /\ esc.verdict.factors.lowConfidence
    /\ FactorCount(esc.verdict.factors) = 1
    /\ esc.verdict.shouldEscalate
    /\ esc.verdict.priority = "low"


\* C29: a message queued in test mode is forwarded at most once: over all
\* interleavings of approve, reject, send and send-all requests,
\* forceSendMessage is called at most once for a pending message, and only
\* while the status of the message is 'approved'.
C29_ForwardedAtMostOnce ==
    \A m \in PendingIds :
        /\ Len(pending.calls[m]) <= 1
        /\ \A k \in 1..Len(pending.calls[m]) : pending.calls[m][k] = "approved"

\* C30: the count of prior conversations is maintained and used: the stored
\* total_conversations has gone up by one for every contact on a date other
\* than that of the previous contact, and after contacts on three or more
\* dates the prompt of the last contact showed a count above the initial 0.
C30_ConversationsCounted ==
    \A c \in DOMAIN customers.rows :
        customers.rows[c].kind = "row" =>
            /\ customers.rows[c].total_conversations
                   = Cardinality(customers.contacted[c]) - 1
            /\ Cardinality(customers.contacted[c]) >= 3 => customers.prompted[c] > 0

====
